---- MODULE Spec2Model ----
(***************************************************************************)
(* The three one-shot rewriting scripts of the repository                  *)
(*   fix_functional_updates.py, migrate_phase.py, replace_ui_components.py *)
(* as one state machine over a target file and its backup file.            *)
(* Text is a sequence of one-character strings; the regular expressions    *)
(* of the scripts are matched character by character with Python's         *)
(* leftmost, greedy, backtracking semantics.                               *)
(***************************************************************************)
EXTENDS Naturals, Sequences, FiniteSets

(***************************************************************************)
(* Bounds of the model.                                                    *)
(***************************************************************************)
MaxRuns == 2
MaxTokens == 3
MaxSnippets == 1
MaxCalls == 2
MaxDocLen == 3
MaxLineNo == 3

(***************************************************************************)
(* Character classes of Python's re on the characters the model uses.     *)
(***************************************************************************)
WordChars ==
  {"a", "b", "c", "d", "e", "f", "g", "h", "i", "j", "k", "l", "m",
   "n", "o", "p", "q", "r", "s", "t", "u", "v", "w", "x", "y", "z",
   "A", "B", "C", "D", "E", "F", "G", "H", "I", "J", "K", "L", "M",
   "N", "O", "P", "Q", "R", "S", "T", "U", "V", "W", "X", "Y", "Z",
   "0", "1", "2", "3", "4", "5", "6", "7", "8", "9", "_"}

SpaceChars == {" ", "\t", "\n", "\r", "\f"}

\* \w
IsWord(ch) == ch \in WordChars

\* membership in the class of a repeated element: \s or [^}]
InClass(c, ch) ==
  IF c = "space" THEN ch \in SpaceChars ELSE ch # "}"

(***************************************************************************)
(* Pattern elements: a literal or an alternation of literals, a greedy     *)
(* repetition of a character class (min 0 for *, min 1 for +), and \b.     *)
(***************************************************************************)
Lit(s) == [t |-> "alt", a |-> <<s>>, c |-> "", min |-> 0]
Alt(a) == [t |-> "alt", a |-> a, c |-> "", min |-> 0]
Star(c) == [t |-> "rep", a |-> <<>>, c |-> c, min |-> 0]
Plus(c) == [t |-> "rep", a |-> <<>>, c |-> c, min |-> 1]
WordB == [t |-> "wb", a |-> <<>>, c |-> "", min |-> 0]

\* buf has the literal s at position pos (positions are 1-based)
StartsWith(buf, pos, s) ==
  /\ pos + Len(s) - 1 <= Len(buf)
  /\ \A i \in 1..Len(s) : buf[pos + i - 1] = s[i]

\* \b at the gap before buf[pos]: exactly one side is a word character
AtWordBoundary(buf, pos) ==
  LET before == pos > 1 /\ IsWord(buf[pos - 1])
      after == pos <= Len(buf) /\ IsWord(buf[pos])
  IN before # after

\* length of the longest run of class c starting at pos
RunLen(c, buf, pos) ==
  CHOOSE n \in 0..(Len(buf) + 1 - pos) :
    /\ \A i \in 0..(n - 1) : InClass(c, buf[pos + i])
    /\ pos + n > Len(buf) \/ ~InClass(c, buf[pos + n])

(***************************************************************************)
(* MatchHere(pat, k, buf, pos): match elements k.. of pat at pos.          *)
(* The result is <<>> when there is no match, and otherwise the sequence   *)
(* of positions <<p_k, ..., p_n, end>> where element j spans               *)
(* [p_j, p_(j+1)).  Alternatives are tried in order and repetitions        *)
(* longest first (greedy, backtracking).                                   *)
(***************************************************************************)
RECURSIVE MatchHere(_, _, _, _)
RECURSIVE TryAlt(_, _, _, _, _)

TryAlt(pat, k, buf, pos, j) ==
  IF j > Len(pat[k].a) THEN <<>>
  ELSE LET s == pat[k].a[j]
           r == IF StartsWith(buf, pos, s)
                THEN MatchHere(pat, k + 1, buf, pos + Len(s))
                ELSE <<>>
       IN IF r # <<>> THEN <<pos>> \o r ELSE TryAlt(pat, k, buf, pos, j + 1)

\* a repetition that can take up to n characters: the first count, from n
\* down to the minimum, with which the rest of the pattern matches
TryRep(pat, k, buf, pos, n) ==
  LET rest == [j \in pat[k].min..n |-> MatchHere(pat, k + 1, buf, pos + j)]
      good == {j \in DOMAIN rest : rest[j] # <<>>}
  IN IF good = {} THEN <<>>
     ELSE <<pos>> \o rest[CHOOSE x \in good : \A y \in good : y <= x]

MatchHere(pat, k, buf, pos) ==
  IF k > Len(pat) THEN <<pos>>
  ELSE CASE pat[k].t = "wb" ->
              IF AtWordBoundary(buf, pos)
              THEN LET r == MatchHere(pat, k + 1, buf, pos)
                   IN IF r # <<>> THEN <<pos>> \o r ELSE <<>>
              ELSE <<>>
         [] pat[k].t = "alt" -> TryAlt(pat, k, buf, pos, 1)
         [] pat[k].t = "rep" ->
              TryRep(pat, k, buf, pos, RunLen(pat[k].c, buf, pos))

\* the text the match m of rule replaces its span with
Replacement(rule, buf, m) ==
  rule.pre
    \o (IF rule.grp > 0
        THEN SubSeq(buf, m[rule.grp], m[rule.grp + 1] - 1)
        ELSE <<>>)
    \o rule.post

(***************************************************************************)
(* re.sub / re.subn: one left-to-right scan; a match is replaced and the   *)
(* scan resumes after it in the original text; the text between matches   *)
(* is copied.  n counts the replacements (the calls of the callback) and   *)
(* spans lists the replaced matches as <<m.start(), m.end()>>, 1-based and *)
(* end-exclusive.  No pattern of the scripts matches the empty string.     *)
(***************************************************************************)
\* the match of the rule at every position of buf
MatchesAt(rule, buf) ==
  [p \in 1..Len(buf) |-> MatchHere(rule.pat, 1, buf, p)]

\* the start of the leftmost match at or after pos, 0 when there is none
NextMatch(M, pos) ==
  LET at == {p \in DOMAIN M : p >= pos /\ M[p] # <<>>}
  IN IF at = {} THEN 0 ELSE CHOOSE p \in at : \A q \in at : p <= q

RECURSIVE SubScan(_, _, _, _, _, _, _)
SubScan(rule, buf, M, pos, out, n, spans) ==
  LET p == NextMatch(M, pos)
  IN IF p = 0
     THEN [out |-> out \o SubSeq(buf, pos, Len(buf)), n |-> n, spans |-> spans]
     ELSE SubScan(rule, buf, M, M[p][Len(M[p])],
                  out \o SubSeq(buf, pos, p - 1) \o Replacement(rule, buf, M[p]),
                  n + 1, Append(spans, <<p, M[p][Len(M[p])]>>))

re_subn(rule, buf) ==
  SubScan(rule, buf, MatchesAt(rule, buf), 1, <<>>, 0, <<>>)

(***************************************************************************)
(* fix_functional_updates.py: the two rules.                               *)
(***************************************************************************)
s_prev == <<"p", "r", "e", "v">>
s_arrow == <<"=", ">">>
s_open == <<"(", "{">>
s_dots == <<".", ".", ".">>
s_close == <<"}", ")">>
s_setPlayer ==
  <<"a", "c", "t", "i", "o", "n", "s", ".",
    "s", "e", "t", "P", "l", "a", "y", "e", "r", "(">>
s_setEnemy ==
  <<"a", "c", "t", "i", "o", "n", "s", ".",
    "s", "e", "t", "E", "n", "e", "m", "y", "(">>

\* the shape shared by pattern1 and pattern2; element 13 is group 1
FunctionalUpdate(head, param) ==
  << Lit(head), Star("space"), Alt(<<s_prev, <<param>>>>), Star("space"),
     Lit(s_arrow), Star("space"), Lit(s_open), Star("space"), Lit(s_dots),
     Alt(<<s_prev, <<param>>>>), Lit(<<",">>), Star("space"),
     Plus("notbrace"), Lit(s_close), Star("space"), Lit(<<")">>) >>

fix_pattern1 == FunctionalUpdate(s_setPlayer, "p")

\* a replacement that loses the brace closing the object
fix_replace1_NoBrace ==
  [pat |-> fix_pattern1, grp |-> 13,
   pre |-> s_setPlayer
           \o <<"{", " ", ".", ".", ".", "p", "l", "a", "y", "e", "r", ",", " ">>,
   post |-> <<")">>]

fix_replace1 ==
  [pat |-> fix_pattern1, grp |-> 13,
   pre |-> s_setPlayer
           \o <<"{", " ", ".", ".", ".", "p", "l", "a", "y", "e", "r", ",", " ">>,
   post |-> s_close]

fix_pattern2 == FunctionalUpdate(s_setEnemy, "e")

fix_replace2 ==
  [pat |-> fix_pattern2, grp |-> 13,
   pre |-> s_setEnemy
           \o <<"{", " ", ".", ".", ".", "e", "n", "e", "m", "y", ",", " ">>,
   post |-> s_close]

(***************************************************************************)
(* migrate_phase.py: the seven rules.                                      *)
(***************************************************************************)
s_phase == <<"p", "h", "a", "s", "e">>
s_battle_phase == <<"b", "a", "t", "t", "l", "e", ".">> \o s_phase
s_setPhase == <<"s", "e", "t", "P", "h", "a", "s", "e", "(">>
s_eq == <<"=", "=", "=">>
s_ne == <<"!", "=", "=">>

mig_pattern1 == << WordB, Lit(s_setPhase) >>
mig_pattern2 == << WordB, Lit(s_phase), Star("space"), Lit(s_eq) >>
mig_pattern3 == << WordB, Lit(s_phase), Star("space"), Lit(s_ne) >>
\* rule 4 without the \b that ends the identifier
mig_pattern4_NoBoundary == << Lit(<<"(">>), Star("space"), Lit(s_phase) >>

mig_pattern4 == << Lit(<<"(">>), Star("space"), Lit(s_phase), WordB >>
mig_pattern5 == << Lit(<<",">>), Star("space"), Lit(s_phase), WordB >>
mig_pattern6 == << Lit(<<"{">>), Star("space"), Lit(s_phase), WordB >>
mig_pattern7 == << Lit(<<"[">>), Star("space"), Lit(s_phase), WordB >>

Literal(pat, repl) == [pat |-> pat, grp |-> 0, pre |-> repl, post |-> <<>>]

mig_replacement1 ==
  Literal(mig_pattern1, <<"a", "c", "t", "i", "o", "n", "s", ".">> \o s_setPhase)
mig_replacement2 == Literal(mig_pattern2, s_battle_phase \o <<" ">> \o s_eq)
mig_replacement3 == Literal(mig_pattern3, s_battle_phase \o <<" ">> \o s_ne)
mig_replacement4 == Literal(mig_pattern4, <<"(">> \o s_battle_phase)
mig_replacement5 == Literal(mig_pattern5, <<",", " ">> \o s_battle_phase)
mig_replacement6 == Literal(mig_pattern6, <<"{", " ">> \o s_battle_phase)
mig_replacement7 == Literal(mig_pattern7, <<"[">> \o s_battle_phase)

\* the rules of a script in the order the script applies them
Rules(s) ==
  IF s = "fix_functional_updates" THEN <<fix_replace1, fix_replace2>>
  ELSE IF s = "migrate_phase"
  THEN <<mig_replacement1, mig_replacement2, mig_replacement3,
         mig_replacement4, mig_replacement5, mig_replacement6,
         mig_replacement7>>
  ELSE <<>>

(***************************************************************************)
(* Text-mode files.  open(..., 'r') reads with universal newlines: "\r\n"  *)
(* and a lone "\r" arrive as "\n".  open(..., 'w') writes every "\n" as    *)
(* os.linesep: "\n" on POSIX, "\r\n" on Windows.                           *)
(***************************************************************************)
Lineseps == {<<"\n">>, <<"\r", "\n">>}

Kept(c) == c # ""

\* what f.read() returns for a file holding bytes
ReadText(bytes) ==
  SelectSeq([i \in 1..Len(bytes) |->
               IF bytes[i] # "\r" THEN bytes[i]
               ELSE IF i < Len(bytes) /\ bytes[i + 1] = "\n" THEN ""
               ELSE "\n"],
            Kept)

\* what f.write(text) leaves in the file when os.linesep is sep
WriteText(text, sep) ==
  IF sep = <<"\n">> THEN text
  ELSE SelectSeq([i \in 1..(2 * Len(text)) |->
                    LET c == text[(i + 1) \div 2]
                    IN IF c = "\n" THEN (IF i % 2 = 1 THEN "\r" ELSE "\n")
                       ELSE (IF i % 2 = 1 THEN c ELSE "")],
                 Kept)

(***************************************************************************)
(* replace_ui_components.py: lines, the replacement block, the splice.     *)
(***************************************************************************)
\* f.readlines(): the text cut after every "\n"; a last line without a
\* final "\n" is a line too
RECURSIVE ReadLines(_, _, _)
ReadLines(text, cur, acc) ==
  IF text = <<>> THEN (IF cur = <<>> THEN acc ELSE Append(acc, cur))
  ELSE IF Head(text) = "\n"
  THEN ReadLines(Tail(text), <<>>, Append(acc, Append(cur, "\n")))
  ELSE ReadLines(Tail(text), Append(cur, Head(text)), acc)

readlines(text) == ReadLines(text, <<>>, <<>>)

\* f.writelines(): the strings of the list one after the other
RECURSIVE writelines(_)
writelines(ls) == IF ls = <<>> THEN <<>> ELSE Head(ls) \o writelines(Tail(ls))

\* the replacement block, one string of several lines (scaled down)
new_code == <<"x", "\n", "y", "\n">>

\* Python's ls[:n] and ls[n:], which clamp n to the length of the list
SliceTo(ls, n) == SubSeq(ls, 1, IF n < Len(ls) THEN n ELSE Len(ls))
SliceFrom(ls, n) == SubSeq(ls, n + 1, Len(ls))

\* lines[:3627] + [new_code] + lines[4196:] with 3627 = first - 1, 4196 = last
SpliceLines(ls, first, last) ==
  SliceTo(ls, first - 1) \o <<new_code>> \o SliceFrom(ls, last)

(***************************************************************************)
(* Input texts.                                                            *)
(***************************************************************************)
SeqsUpTo(S, n) == UNION {[1..k -> S] : k \in 0..n}

\* a call of the shape the functional-update rules look for
UpdateCall(head, param, gap, fields) ==
  head \o param \o gap \o s_arrow \o gap \o s_open \o gap \o s_dots
       \o param \o <<",">> \o gap \o fields \o s_close \o <<")">>

FixSnippets ==
  {UpdateCall(s_setPlayer, s_prev, <<" ">>, <<"h", "p", ":", " ", "1", "0", " ">>),
   UpdateCall(s_setPlayer, <<"p">>, <<>>, <<"h", "p", ":", "1">>),
   UpdateCall(s_setPlayer, <<"e">>, <<>>, <<"h", "p", ":", "1">>),
   UpdateCall(s_setEnemy, s_prev, <<" ">>, <<"h", "p", ":", " ", "1", "0", " ">>),
   UpdateCall(s_setEnemy, <<"e">>, <<>>, <<"h", "p", ":", "1">>),
   UpdateCall(s_setEnemy, <<"p">>, <<>>, <<"h", "p", ":", "1">>),
   s_setPlayer \o <<"p", " ", "=", ">", " ", "{", "\r", "\n", "}", ")">>,
   <<";", "\n">>}

MigTokens ==
  {s_phase, s_setPhase, s_eq, <<" ">>, <<"(">>, <<",">>, <<"x">>}

MigSnippets ==
  {s_setPhase, s_phase \o <<" ">> \o s_eq, s_phase \o s_ne,
   <<"(">> \o s_phase, <<",", " ">> \o s_phase, <<"{">> \o s_phase,
   <<"[", " ">> \o s_phase, s_phase \o <<"L", "a", "b", "e", "l">>,
   <<"x", ";", "\n">>, <<"x", ";", "\r", "\n">>}

\* the buffers of the phase scenario: `<ph> === 'select'` and `phaseLabel`,
\* in either order, with a separator between them
s_select == <<" ">> \o s_eq \o <<" ", "'", "s", "e", "l", "e", "c", "t", "'">>
s_phaseLabel == s_phase \o <<"L", "a", "b", "e", "l">>
Separators ==
  {<<" ">>, <<",", " ">>, <<"(">>, <<" ", "&", "&", " ">>, <<"\n">>,
   <<"\r", "\n">>}

PhaseScenario(ph, sep, labelFirst) ==
  IF labelFirst THEN s_phaseLabel \o sep \o ph \o s_select
  ELSE ph \o s_select \o sep \o s_phaseLabel

MigScenarios ==
  {PhaseScenario(s_phase, sep, o) : sep \in Separators, o \in BOOLEAN}

\* further buffers for rules 3, 6 and 7 and for identifiers that contain
\* `phase`
MigSamples ==
  {s_phase \o <<" ">> \o s_ne, s_phase \o s_ne, <<"x">> \o s_phase \o s_ne,
   s_phase \o <<"_", "x", " ">> \o s_ne,
   <<"{", " ">> \o s_phase, <<"{">> \o s_phase \o <<"}">>,
   <<"{", " ">> \o s_phaseLabel, <<"{", " ", "m", "y">> \o s_phase,
   <<"[">> \o s_phase, <<"[", " ">> \o s_phase \o <<"]">>,
   <<"[">> \o s_phase \o <<"_", "x", "]">>,
   <<"[">> \o s_phase \o <<",", " ">> \o s_phase \o <<"]">>,
   <<"s", "e", "t", "P", "h", "a", "s", "e", "F", "l", "a", "g", "(">>
     \o s_phase \o <<")">>,
   <<"m", "y">> \o s_setPhase \o s_phase \o <<"S", "h", "i", "f", "t", ")">>}

DocChars == {"a", "\r", "\n"}

Texts(S, n) == {writelines(q) : q \in SeqsUpTo(S, n)}

Scripts == {"fix_functional_updates", "migrate_phase", "replace_ui_components"}

RegexScripts == {"fix_functional_updates", "migrate_phase"}

\* the files the runs of the full machine start from
RunInputs(s) ==
  IF s = "fix_functional_updates" THEN Texts(FixSnippets, MaxSnippets)
  ELSE IF s = "migrate_phase" THEN Texts(MigSnippets, MaxSnippets)
  ELSE SeqsUpTo(DocChars, MaxDocLen)

\* the buffers the rules are exercised on
RuleInputs(s) ==
  IF s = "fix_functional_updates" THEN Texts(FixSnippets, MaxCalls)
  ELSE Texts(MigTokens, MaxTokens) \cup MigScenarios \cup MigSamples

(***************************************************************************)
(* State.                                                                  *)
(***************************************************************************)
VARIABLES
  script,      \* which of the three scripts runs
  file,        \* content of the file at file_path
  hasBackup,   \* the file at file_path + suffix exists
  backup,      \* its content
  linesep,     \* os.linesep of the machine the script runs on
  pc,          \* Idle, Loaded, BackedUp, Transforming, Saved, Aborted
  content,     \* the in-memory buffer of the regex scripts
  lines,       \* the list read by replace_ui_components
  new_lines,   \* the list it writes
  changes,     \* the counter `changes`
  counts,      \* the count reported for each rule applied so far
  given,       \* history: the buffer each rule applied so far was given
  replaced,    \* history: the spans each rule applied so far replaced
  pre,         \* history: content of the file when the run started
  run,         \* number of the run
  failedAt,    \* step at which the run raised: none, load, backup, rule, save
  first,       \* 1-based number of the first line replaced (3628)
  last         \* 1-based number of the last line replaced (4196)

vars ==
  <<script, file, hasBackup, backup, linesep, pc, content, lines, new_lines, changes,
    counts, given, replaced, pre, run, failedAt, first, last>>

NRules == Len(Rules(script))

InitWith(s, f) ==
  /\ script = s
  /\ file = f
  /\ hasBackup = FALSE
  /\ backup = <<>>
  /\ pc = "Idle"
  /\ content = <<>>
  /\ lines = <<>>
  /\ new_lines = <<>>
  /\ changes = 0
  /\ counts = <<>>
  /\ given = <<>>
  /\ replaced = <<>>
  /\ pre = f
  /\ run = 1
  /\ failedAt = "none"

Init ==
  /\ \E s \in Scripts : \E f \in RunInputs(s) : InitWith(s, f)
  /\ linesep \in Lineseps
  /\ first \in 1..MaxLineNo
  /\ last \in (first + 1)..MaxLineNo
  /\ script \in RegexScripts => first = 1 /\ last = 2

\* os.linesep plays no role for a text without a line break, and no rule
\* puts one in: such a text is started on one machine only
InitRules ==
  /\ \E s \in RegexScripts : \E f \in RuleInputs(s) : InitWith(s, f)
  /\ linesep \in Lineseps
  /\ (\A i \in 1..Len(file) : file[i] \notin {"\r", "\n"}) => linesep = <<"\n">>
  /\ first = 1
  /\ last = 2

(***************************************************************************)
(* The steps of a run.                                                     *)
(***************************************************************************)
\* the proper prefixes of a text: what a write that raises part-way leaves
Partial(text) == {SubSeq(text, 1, k) : k \in 0..(Len(text) - 1)}

\* open(file_path, 'r') and f.read() / f.readlines()
Load ==
  /\ pc = "Idle"
  /\ pc' = "Loaded"
  /\ IF script = "replace_ui_components"
     THEN lines' = readlines(ReadText(file)) /\ content' = content
     ELSE content' = ReadText(file) /\ lines' = lines
  /\ UNCHANGED <<script, linesep, file, hasBackup, backup, new_lines,
                 changes, counts, given, replaced, pre, run, failedAt, first,
                 last>>

\* the open or the read raises
LoadFail ==
  /\ pc = "Idle"
  /\ pc' = "Aborted"
  /\ failedAt' = "load"
  /\ UNCHANGED <<script, linesep, file, hasBackup, backup, content, lines,
                 new_lines, changes, counts, given, replaced, pre, run,
                 first, last>>

\* open(file_path + suffix, 'w'), f.write(content); then changes = 0
Backup ==
  /\ pc = "Loaded"
  /\ script \in RegexScripts
  /\ hasBackup' = TRUE
  /\ backup' = WriteText(content, linesep)
  /\ changes' = 0
  /\ pc' = "BackedUp"
  /\ UNCHANGED <<script, linesep, file, content, lines, new_lines, counts,
                 given, replaced, pre, run, failedAt, first, last>>

\* the open raises (nothing is touched), or the open has truncated the
\* backup file and the write raises
BackupFail ==
  /\ pc = "Loaded"
  /\ script \in RegexScripts
  /\ \E opened \in BOOLEAN :
       IF opened
       THEN /\ hasBackup' = TRUE
            /\ backup' \in Partial(WriteText(content, linesep)) \cup {<<>>}
       ELSE UNCHANGED <<hasBackup, backup>>
  /\ pc' = "Aborted"
  /\ failedAt' = "backup"
  /\ UNCHANGED <<script, linesep, file, content, lines, new_lines, changes,
                 counts, given, replaced, pre, run, first, last>>

\* a report that forgets changes_before and prints the running total
Reported_Total(s, k, c, n) == IF s = "migrate_phase" THEN n ELSE c + n

\* what the script prints as the count of rule k, the counter being c before
\* the rule and the rule replacing n matches
Reported(s, k, c, n) ==
  IF s = "migrate_phase" THEN n
  ELSE IF k = 1 THEN c + n
  ELSE LET changes_before == c IN (c + n) - changes_before

\* a rule step that rewrites the text as loaded, not the running buffer
ApplyRule_OnLoaded ==
  /\ pc \in {"BackedUp", "Transforming"}
  /\ script \in RegexScripts
  /\ Len(counts) < NRules
  /\ LET k == Len(counts) + 1
         r == re_subn(Rules(script)[k], ReadText(file))
     IN /\ content' = r.out
        /\ changes' = changes + r.n
        /\ counts' = Append(counts, r.n)
        /\ given' = Append(given, content)
        /\ replaced' = Append(replaced, r.spans)
  /\ pc' = "Transforming"
  /\ UNCHANGED <<script, linesep, file, hasBackup, backup, lines, new_lines,
                 pre, run, failedAt, first, last>>

\* the next rule of the script: content = re.sub(pattern, replace, content)
ApplyRule ==
  /\ pc \in {"BackedUp", "Transforming"}
  /\ script \in RegexScripts
  /\ Len(counts) < NRules
  /\ LET k == Len(counts) + 1
         r == re_subn(Rules(script)[k], content)
     IN /\ content' = r.out
        /\ changes' = changes + r.n
        /\ counts' = Append(counts, Reported(script, k, changes, r.n))
        /\ given' = Append(given, content)
        /\ replaced' = Append(replaced, r.spans)
  /\ pc' = "Transforming"
  /\ UNCHANGED <<script, linesep, file, hasBackup, backup, lines, new_lines,
                 pre, run, failedAt, first, last>>

\* a rule raises: the script ends there
RuleFail ==
  /\ pc \in {"BackedUp", "Transforming"}
  /\ script \in RegexScripts
  /\ Len(counts) < NRules
  /\ pc' = "Aborted"
  /\ failedAt' = "rule"
  /\ UNCHANGED <<script, linesep, file, hasBackup, backup, content, lines,
                 new_lines, changes, counts, given, replaced, pre, run,
                 first, last>>

\* new_lines = lines[:3627] + [new_code] + lines[4196:]
Splice ==
  /\ pc = "Loaded"
  /\ script = "replace_ui_components"
  /\ new_lines' = SpliceLines(lines, first, last)
  /\ pc' = "Transforming"
  /\ UNCHANGED <<script, linesep, file, hasBackup, backup, content, lines,
                 changes, counts, given, replaced, pre, run, failedAt, first,
                 last>>

\* what the script's last write leaves in the file at file_path
Output ==
  WriteText(IF script = "replace_ui_components" THEN writelines(new_lines)
            ELSE content,
            linesep)

\* a save that does not wait for the last rule
ReadyToSave_Early == pc = "Transforming"

ReadyToSave ==
  /\ pc = "Transforming"
  /\ script \in RegexScripts => Len(counts) = NRules

\* open(file_path, 'w'), f.write(content) / f.writelines(new_lines)
Save ==
  /\ ReadyToSave
  /\ file' = Output
  /\ pc' = "Saved"
  /\ UNCHANGED <<script, linesep, hasBackup, backup, content, lines,
                 new_lines, changes, counts, given, replaced, pre, run,
                 failedAt, first, last>>

\* the open raises (nothing is touched), or the open has truncated the
\* target and the write raises
SaveFail ==
  /\ ReadyToSave
  /\ file' \in {file} \cup Partial(Output) \cup {<<>>}
  /\ pc' = "Aborted"
  /\ failedAt' = "save"
  /\ UNCHANGED <<script, linesep, hasBackup, backup, content, lines,
                 new_lines, changes, counts, given, replaced, pre, run,
                 first, last>>

\* the same script is started again on the same file
NextRun ==
  /\ pc \in {"Saved", "Aborted"}
  /\ run < MaxRuns
  /\ run' = run + 1
  /\ pre' = file
  /\ pc' = "Idle"
  /\ content' = <<>>
  /\ lines' = <<>>
  /\ new_lines' = <<>>
  /\ changes' = 0
  /\ counts' = <<>>
  /\ given' = <<>>
  /\ replaced' = <<>>
  /\ failedAt' = "none"
  /\ UNCHANGED <<script, linesep, file, hasBackup, backup, first, last>>

Next ==
  \/ Load
  \/ LoadFail
  \/ Backup
  \/ BackupFail
  \/ ApplyRule
  \/ RuleFail
  \/ Splice
  \/ Save
  \/ SaveFail
  \/ NextRun

Spec == Init /\ [][Next]_vars

\* the runs in which nothing raises, on the larger set of buffers
NextRules ==
  \/ Load
  \/ Backup
  \/ ApplyRule
  \/ Save
  \/ NextRun

SpecRules == InitRules /\ [][NextRules]_vars

(***************************************************************************)
(* Properties.                                                             *)
(***************************************************************************)
\* two files hold the same text: f.read() returns the same for both
SameText(a, b) == ReadText(a) = ReadText(b)

\* the run has got past its backup step
BackupDone ==
  \/ pc \in {"BackedUp", "Transforming", "Saved"}
  \/ pc = "Aborted" /\ failedAt \in {"rule", "save"}

\* C1: in every state of a run of any of the three scripts, if the target
\* file differs from what it was when the run started, a backup file exists
\* and holds the content the target had when the run started.
C1_BackupPrecedesMutation ==
  file # pre => hasBackup /\ backup = pre

\* the same with the files compared as the text f.read() returns, for the two
\* scripts that write a backup
BackupPrecedesMutationAsText ==
  (script \in RegexScripts /\ ~SameText(file, pre))
  => hasBackup /\ SameText(backup, pre)

\* a run of a regex script that raised before its save left the target as
\* it was
AbortLeavesFile ==
  (script \in RegexScripts /\ pc = "Aborted"
     /\ failedAt \in {"load", "backup", "rule"}) => file = pre

\* a step of a regex script that writes to the target is taken with the
\* backup of the pre-run content written and every rule applied
WriteIsLast ==
  (script \in RegexScripts
     /\ (file' # file \/ pc' = "Saved" \/ failedAt' = "save"))
  => /\ pc = "Transforming"
     /\ Len(counts) = NRules
     /\ hasBackup
     /\ SameText(backup, pre)

\* C2: in a run of fix_functional_updates or migrate_phase the target is
\* written only after the backup write has succeeded and every rule has been
\* applied to the buffer, and a run in which the load, the backup write or a
\* rule raises ends Aborted with the target unchanged.
C2_NoPartialWrites == [](AbortLeavesFile) /\ [][WriteIsLast]_vars

\* C2 witness: a rule has rewritten the buffer, a later rule raised, and the
\* run is Aborted
C2_Witness ==
  /\ script \in RegexScripts
  /\ pc = "Aborted"
  /\ failedAt = "rule"
  /\ counts # <<>>
  /\ content # file

\* the interval [first, last) fits a document of n lines
RangeValid(n) == 1 <= first /\ first <= last /\ last <= n + 1

\* C3: replacing the half-open interval [start, end) = [first, last) of a
\* document of N lines by the block B gives N - (end - start) + len(B)
\* lines, the lines before start and the lines from end onward being those of
\* the original, in order.
C3_SpliceExact ==
  LET old == readlines(ReadText(pre))
      new == readlines(ReadText(file))
      B == readlines(new_code)
  IN (script = "replace_ui_components" /\ pc = "Saved"
        /\ RangeValid(Len(old)))
     => /\ Len(new) + (last - first) = Len(old) + Len(B)
        /\ \A i \in 1..(first - 1) : new[i] = old[i]
        /\ \A i \in last..Len(old) :
             new[(i + Len(B)) - (last - first)] = old[i]

\* C4: when the interval does not satisfy 1 <= start <= end <= len(lines)+1
\* for the document loaded, the run does not save and the target stays as it
\* was.
C4_RangeErrorAborts ==
  (script = "replace_ui_components" /\ ~RangeValid(Len(readlines(ReadText(pre)))))
  => pc # "Saved" /\ file = pre

\* C9: once a run of a regex script has written its backup, the content of
\* the backup file is the content the target had immediately before that
\* run, whatever an earlier run left there; and no step removes the backup
\* file.
C9_BackupOfLastRun ==
  /\ []((script \in RegexScripts /\ BackupDone)
          => (hasBackup /\ backup = pre))
  /\ [][hasBackup => hasBackup']_vars

\* the same with the two files compared as the text f.read() returns
BackupOfLastRunAsText ==
  /\ []((script \in RegexScripts /\ BackupDone)
          => (hasBackup /\ SameText(backup, pre)))
  /\ [][hasBackup => hasBackup']_vars

\* a second run has overwritten the backup of the first with the file the
\* first run saved
BackupOverwritten ==
  /\ script = "migrate_phase"
  /\ run = 2
  /\ pc = "Saved"
  /\ backup = <<"a", "c", "t", "i", "o", "n", "s", ".">> \o s_setPhase
  /\ backup = pre
  /\ file # pre

\* the buffer rule k left behind
After(k) == IF k < Len(given) THEN given[k + 1] ELSE content

\* C5: a second run of migrate_phase on the file its first run saved reports
\* count 0 for every rule and leaves the buffer as loaded.
C5_SecondRunChangesNothing ==
  (script = "migrate_phase" /\ run >= 2)
  => /\ \A k \in 1..Len(counts) : counts[k] = 0
     /\ pc \in {"BackedUp", "Transforming", "Saved"} => content = ReadText(pre)

\* the call of the setPlayer scenario and the two candidate rewritings
ScenarioCall ==
  UpdateCall(s_setPlayer, s_prev, <<" ">>, <<"h", "p", ":", " ", "1", "0", " ">>)

RewrittenNoSpace ==
  s_setPlayer
    \o <<"{", " ", ".", ".", ".", "p", "l", "a", "y", "e", "r", ",", " ",
         "h", "p", ":", " ", "1", "0", "}", ")">>

RewrittenKeepingSpace ==
  s_setPlayer
    \o <<"{", " ", ".", ".", ".", "p", "l", "a", "y", "e", "r", ",", " ",
         "h", "p", ":", " ", "1", "0", " ", "}", ")">>

\* the texts around the scenario call: no call of setPlayer in them
Around ==
  {<<>>, <<";", "\n">>,
   UpdateCall(s_setEnemy, <<"e">>, <<>>, <<"h", "p", ":", "1">>)}

\* rule 1, given a buffer that holds the scenario call once, reports 1 and
\* leaves the buffer with the call replaced by the text `to`
ScenarioRewrittenTo(to) ==
  \A a \in Around, b \in Around :
    (script = "fix_functional_updates" /\ Len(counts) >= 1
       /\ given[1] = a \o ScenarioCall \o b)
    => counts[1] = 1 /\ After(1) = a \o to \o b

\* C6 as stated: the call `actions.setPlayer(prev => ({ ...prev, hp: 10 }))`
\* is rewritten to exactly `actions.setPlayer({ ...player, hp: 10})`, count 1,
\* the text around it unchanged.
C6_AsStated == ScenarioRewrittenTo(RewrittenNoSpace)

\* C6 amended: the call is rewritten to
\* `actions.setPlayer({ ...player, hp: 10 })`: group 1 holds the fields with
\* the space before the closing brace; count 1, the text around it unchanged.
C6_ScenarioKeepsSpace == ScenarioRewrittenTo(RewrittenKeepingSpace)

\* C6 witness: rule 1 has been applied to the scenario call followed by a
\* setEnemy call
C6_Witness ==
  /\ script = "fix_functional_updates"
  /\ Len(counts) >= 1
  /\ given[1] = ScenarioCall
                  \o UpdateCall(s_setEnemy, <<"e">>, <<>>, <<"h", "p", ":", "1">>)
  /\ counts[1] = 1

\* the occurrence of the identifier id at position p of buf is a whole
\* identifier: no word character on either side
WholeWord(buf, p, id) ==
  /\ ~(p > 1 /\ IsWord(buf[p - 1]))
  /\ ~(p + Len(id) <= Len(buf) /\ IsWord(buf[p + Len(id)]))

\* every occurrence of id in buf that a replaced span touches is a whole
\* identifier
TouchedAreWhole(buf, spans, id) ==
  \A i \in 1..Len(spans) : \A p \in 1..Len(buf) :
    (StartsWith(buf, p, id) /\ p < spans[i][2] /\ p + Len(id) > spans[i][1])
    => WholeWord(buf, p, id)

\* C7: no rule of migrate_phase replaces a match that touches an occurrence
\* of `phase` (or of `setPhase`) lying inside a longer identifier, an
\* identifier being a run of letters, digits and underscores; and the run on
\* a buffer holding `phase === 'select'` and `phaseLabel` saves it with
\* `battle.phase === 'select'`, `phaseLabel` as it was, total count 1.
C7_WordBoundary ==
  script = "migrate_phase"
  => /\ \A k \in 1..Len(replaced) :
          /\ TouchedAreWhole(given[k], replaced[k], s_phase)
          /\ TouchedAreWhole(given[k], replaced[k],
                             <<"s", "e", "t", "P", "h", "a", "s", "e">>)
     /\ \A sep \in Separators, o \in BOOLEAN :
          (pc = "Saved" /\ pre = PhaseScenario(s_phase, sep, o))
          => /\ ReadText(file) = ReadText(PhaseScenario(s_battle_phase, sep, o))
             /\ changes = 1

\* C7 witness: the run on `phase === 'select'(phaseLabel` has saved: rule 2
\* rewrote the first, rule 4 left `(phaseLabel` alone
C7_Witness ==
  /\ script = "migrate_phase"
  /\ pc = "Saved"
  /\ run = 1
  /\ pre = PhaseScenario(s_phase, <<"(">>, FALSE)
  /\ changes = 1

\* RuleSet.apply as a composition: the rules after the first applied to what
\* the first made of the buffer
RECURSIVE ApplyAll(_, _)
ApplyAll(rules, buf) ==
  IF rules = <<>> THEN buf
  ELSE ApplyAll(Tail(rules), re_subn(Head(rules), buf).out)

\* C8: each rule is applied, in the written order and none skipped, to the
\* buffer the previous rule produced: rule 1 is given the text loaded, rule
\* k+1 is given what rule k made of the buffer it was given, and the text
\* saved is the output of the last rule, which is the composition of all the
\* rules of the script on the text loaded.
C8_SequentialComposition ==
  (script \in RegexScripts /\ pc \in {"BackedUp", "Transforming", "Saved"})
  => /\ Len(given) = Len(counts)
     /\ counts = <<>> => content = ReadText(pre)
     /\ \A k \in 1..Len(given) :
          /\ k = 1 => given[k] = ReadText(pre)
          /\ After(k) = ApplyAll(<<Rules(script)[k]>>, given[k])
     /\ pc = "Saved"
          => /\ Len(counts) = NRules
             /\ file = WriteText(After(NRules), linesep)
             /\ ReadText(file) = ApplyAll(Rules(script), ReadText(pre))

\* C8 witness: migrate_phase has saved `(battle.phase ===` for `(phase===`:
\* rule 4 was given the output of rule 2 and found nothing left to rewrite
C8_Witness ==
  /\ script = "migrate_phase"
  /\ pc = "Saved"
  /\ pre = <<"(">> \o s_phase \o s_eq
  /\ counts = <<0, 1, 0, 0, 0, 0, 0>>

RECURSIVE SumSeq(_)
SumSeq(q) == IF q = <<>> THEN 0 ELSE Head(q) + SumSeq(Tail(q))

\* the spans are the leftmost non-overlapping matches of the rule in buf, in
\* order: each is a match, each starts no earlier than the one before ends,
\* and no match starts outside them
LeftmostMatches(rule, buf, spans) ==
  LET M == MatchesAt(rule, buf)
  IN /\ \A i \in 1..Len(spans) :
          /\ spans[i][1] \in DOMAIN M
          /\ M[spans[i][1]] # <<>>
          /\ M[spans[i][1]][Len(M[spans[i][1]])] = spans[i][2]
          /\ i > 1 => spans[i - 1][2] <= spans[i][1]
     /\ \A p \in DOMAIN M :
          M[p] # <<>> => \E i \in 1..Len(spans) :
                           spans[i][1] <= p /\ p < spans[i][2]

\* C10: the count reported for each rule is the number of leftmost
\* non-overlapping matches it replaced in the buffer it was given; a rule
\* without a match reports 0 and leaves the buffer as given; the total
\* `changes` is the sum of the reported counts.
C10_ChangeCounting ==
  script \in RegexScripts
  => /\ \A k \in 1..Len(counts) :
          /\ counts[k] = Len(replaced[k])
          /\ LeftmostMatches(Rules(script)[k], given[k], replaced[k])
          /\ counts[k] = 0 => After(k) = given[k]
     /\ pc \in {"BackedUp", "Transforming", "Saved"} => changes = SumSeq(counts)

\* C10 witness: fix_functional_updates has saved with one setPlayer and one
\* setEnemy call rewritten
C10_Witness ==
  /\ script = "fix_functional_updates"
  /\ pc = "Saved"
  /\ counts = <<1, 1>>
  /\ changes = 2

====
